---- MODULE Spec2Model ----
(***************************************************************************)
(* ipv6-ddns-cloudflare (main.go): the address poll loop, the stability    *)
(* timer and its expiry callback, and the CloudFlare record client.        *)
(*                                                                         *)
(* The poll loop runs on the main goroutine.  time.AfterFunc runs every    *)
(* expiry callback on a goroutine of its own, and DDNSService has no lock, *)
(* so the steps of a callback interleave with the steps of the poll loop   *)
(* and with the steps of other callbacks.  A step of the model is a piece  *)
(* of code between two points where another goroutine can be observed:     *)
(* the start of a callback, the call of time.AfterFunc inside              *)
(* startStabilityTimer, and the HTTP round trip inside updateDNS.          *)
(*                                                                         *)
(* The model is untimed: PollInterval and StabilityDelay are configuration *)
(* (any positive number of seconds), so a tick, an expiry and an HTTP      *)
(* reply may come in any order.                                            *)
(*                                                                         *)
(* Timers have no names: the timers alive at a moment are a bag of their   *)
(* states.  A timer is "armed" while it waits to expire and is the one     *)
(* DDNSService.stabilityTimer points to, "orphan" while it waits to expire *)
(* and the field points elsewhere; once expired it is its callback:        *)
(* "fired" (started), "rearm" (about to call time.AfterFunc), "inflight"   *)
(* (request sent), "ok" (request applied by CloudFlare).  A stopped timer  *)
(* and a returned callback leave the bag.                                  *)
(***************************************************************************)
EXTENDS Naturals, Sequences, FiniteSets, Bags

\* Number of timers that can be alive (waiting to expire, or with a running
\* callback) at once.
MaxTimers == 2

\* Global unicast addresses the interface can carry.
Addrs == {"A", "B", "C"}
\* getPublicIPv6 returned an error (interface or address not found).
NoAddr == "none"
\* The content of the record that exists before the service starts, if one
\* does (the addresses are interchangeable, so one of them stands for all).
StartAddr == "A"
\* The empty Go string of lastKnownIP / pendingIP.
Unset == ""
\* DDNSService.stabilityTimer: nil, or a pointer to a timer.
NoTimer == "nil"
ATimer == "timer"
\* The empty recordID.
NoRecord == 0

VARIABLES
    iface,          \* what getPublicIPv6 returns now: an address or NoAddr
    remote,         \* contents of the AAAA records of RecordName in the zone,
                    \* in the order of their creation: record i has id i
    published,      \* content of the last write the zone applied, or of the
                    \* record that was there at startup
    lastKnownIP,    \* DDNSService.lastKnownIP
    pendingIP,      \* DDNSService.pendingIP
    stabilityTimer, \* DDNSService.stabilityTimer: NoTimer or ATimer
    recordID,       \* DDNSService.recordID: NoRecord or the id of a record
    mpc,            \* position of the main goroutine
    timers,         \* the timers alive and their callbacks: a bag
    failedIP,       \* history: the address whose upsert has failed, while the
                    \* interface has kept it and no callback has proposed it
                    \* again; Unset otherwise
    probe           \* one call of getPublicIPv6 taken by itself: the addresses
                    \* the interface reports and what the call returns

vars == <<iface, remote, published, lastKnownIP, pendingIP, stabilityTimer, recordID,
          mpc, timers, failedIP, probe>>

\* The number of AAAA records of RecordName in the zone.
records == Len(remote)

\* A timer waiting to expire that DDNSService.stabilityTimer points to.
ArmedTimer == [st |-> "armed", ip |-> Unset, rec |-> NoRecord]
\* A timer waiting to expire that the field no longer points to.
OrphanTimer == [st |-> "orphan", ip |-> Unset, rec |-> NoRecord]
\* A callback that has started / that is about to call time.AfterFunc.
FiredTimer == [st |-> "fired", ip |-> Unset, rec |-> NoRecord]
RearmTimer == [st |-> "rearm", ip |-> Unset, rec |-> NoRecord]

One(r) == SetToBag({r})
Alive == BagToSet(timers)
\* The bag ts with one r replaced by q.
Becomes(ts, r, q) == (ts (-) One(r)) (+) One(q)

\* Timers waiting to expire, callbacks that have started and not returned,
\* callbacks inside updateDNS.
Armed(r) == r.st \in {"armed", "orphan"}
Running(r) == r.st \in {"fired", "rearm", "inflight", "ok"}
InFlight(r) == r.st \in {"inflight", "ok"}

\* The probe: the first qualifying address of the interface, or an error.
getPublicIPv6 == iface

\* A Stop that stops nothing.
TimerStopForgets(ts) == ts

\* s.stabilityTimer.Stop(), with its nil check: the timer the field points to
\* will never fire if it has not expired yet; anything else is untouched.
TimerStop(ts) ==
    IF BagIn(ArmedTimer, ts) THEN ts (-) One(ArmedTimer) ELSE ts

\* s.stabilityTimer = time.AfterFunc(...): a new timer waits to expire and the
\* field points to it, and no longer to the timer it pointed to.
AfterFunc(ts) ==
    (IF BagIn(ArmedTimer, ts) THEN Becomes(ts, ArmedTimer, OrphanTimer) ELSE ts)
      (+) One(ArmedTimer)

(***************************************************************************)
(* getPublicIPv6 by itself.  An address is what the tests of the loop      *)
(* look at: its first two bytes, and of the other fourteen whether they    *)
(* are all zero ("zero"), all zero but a last byte of one ("one"), the     *)
(* tail of an IPv4 address in its 16-byte form ("v4": bytes 2..9 zero,     *)
(* bytes 10 and 11 0xff; the leading bytes are zero too) or anything else  *)
(* ("host").  iface.Addrs() yields *net.IPNet values on the systems the    *)
(* service is installed on, so the type assertion of the loop holds.       *)
(***************************************************************************)

\* Number of addresses on the interface.
MaxAddrs == 2

\* First bytes: ::, 2000::/3, fc00::/8, fd00::/8, fe80::/10 or fec0::/10, ff00::/8.
Byte0 == {0, 32, 252, 253, 254, 255}
Byte1 == {0, 128, 192}
IPs == {ip \in [b0 : Byte0, b1 : Byte1, rest : {"zero", "one", "v4", "host"}] :
          ip.rest = "v4" => ip.b0 = 0 /\ ip.b1 = 0}
AddrLists == UNION {[1..n -> IPs] : n \in 0..MaxAddrs}

\* net.IP.To4() != nil, IsUnspecified, IsLoopback, IsMulticast,
\* IsLinkLocalUnicast (ip[0] == 0xfe && ip[1]&0xc0 == 0x80), IsGlobalUnicast,
\* as the Go library defines them on a 16-byte address.
IsV4(ip) == ip.rest = "v4"
IsUnspecified(ip) == ip.b0 = 0 /\ ip.b1 = 0 /\ ip.rest = "zero"
IsLoopback(ip) == ip.b0 = 0 /\ ip.b1 = 0 /\ ip.rest = "one"
IsMulticast(ip) == ip.b0 = 255
IsLinkLocalUnicast(ip) == ip.b0 = 254 /\ ip.b1 \div 64 = 2
IsGlobalUnicast(ip) ==
    /\ ~IsUnspecified(ip)
    /\ ~IsLoopback(ip)
    /\ ~IsMulticast(ip)
    /\ ~IsLinkLocalUnicast(ip)
IsULA(ip) == ip.b0 = 252 \/ ip.b0 = 253

\* A loop that forgets to skip the unique-local addresses.
RECURSIVE scanAddrsKeepsULA(_, _)
scanAddrsKeepsULA(addrs, i) ==
    IF i > Len(addrs) THEN << >>
    ELSE LET ip == addrs[i] IN
         IF IsV4(ip) THEN scanAddrsKeepsULA(addrs, i + 1)
         ELSE IF IsLinkLocalUnicast(ip) THEN scanAddrsKeepsULA(addrs, i + 1)
         ELSE IF IsLoopback(ip) THEN scanAddrsKeepsULA(addrs, i + 1)
         ELSE IF IsGlobalUnicast(ip) THEN <<ip>>
         ELSE scanAddrsKeepsULA(addrs, i + 1)

\* The loop of getPublicIPv6 over addrs from entry i on: <<ip>> for the first
\* address ip that passes every test, << >> for the error after the loop.
RECURSIVE scanAddrs(_, _)
scanAddrs(addrs, i) ==
    IF i > Len(addrs) THEN << >>
    ELSE LET ip == addrs[i] IN
         IF IsV4(ip) THEN scanAddrs(addrs, i + 1)
         ELSE IF IsLinkLocalUnicast(ip) THEN scanAddrs(addrs, i + 1)
         ELSE IF IsLoopback(ip) THEN scanAddrs(addrs, i + 1)
         ELSE IF IsULA(ip) THEN scanAddrs(addrs, i + 1)
         ELSE IF IsGlobalUnicast(ip) THEN <<ip>>
         ELSE scanAddrs(addrs, i + 1)

\* No call of getPublicIPv6 is looked at by itself.
NoProbe == [addrs |-> << >>, called |-> FALSE, ret |-> << >>]

Init ==
    /\ iface \in Addrs \cup {NoAddr}
    /\ \/ remote = << >> /\ published = Unset
       \/ remote = <<StartAddr>> /\ published = StartAddr
    /\ lastKnownIP = Unset
    /\ pendingIP = Unset
    /\ stabilityTimer = NoTimer
    /\ recordID = NoRecord
    /\ mpc = "start"
    /\ timers = EmptyBag
    /\ failedIP = Unset
    /\ probe = NoProbe

\* The interface gets another address, or loses its public address.
IfaceChange ==
    /\ mpc # "exited"
    /\ \E a \in (Addrs \cup {NoAddr}) \ {iface} : iface' = a
    /\ failedIP' = Unset
    /\ UNCHANGED <<remote, published, lastKnownIP, pendingIP, stabilityTimer,
                   recordID, mpc, timers, probe>>

\* CloudFlare answers the lookup fetchRecordID has sent: with success=true
\* and the records of the name (ok), or not (a transport error, a body that
\* does not parse, success=false).
LookupServe(ok) ==
    /\ mpc = "start"
    /\ mpc' = IF ok THEN "fetched" ELSE "refused"
    /\ UNCHANGED <<iface, remote, published, lastKnownIP, pendingIP, stabilityTimer,
                   recordID, timers, failedIP, probe>>

\* A lookup that caches the record's id and forgets its content.
fetchRecordIDKeepsNoAddress(ok) ==
    /\ mpc = IF ok THEN "fetched" ELSE "refused"
    /\ mpc' = IF ok THEN "initial" ELSE "exited"
    /\ recordID' = IF ok /\ records > 0 THEN 1 ELSE recordID
    /\ UNCHANGED <<iface, remote, published, lastKnownIP, pendingIP, stabilityTimer,
                   timers, failedIP, probe>>

\* A startup that logs the failure of the lookup and goes on to poll.
fetchRecordIDIgnoresFailure(ok) ==
    /\ mpc = IF ok THEN "fetched" ELSE "refused"
    /\ mpc' = "initial"
    /\ IF ok /\ records > 0
         THEN recordID' = 1 /\ lastKnownIP' = remote[1]
         ELSE UNCHANGED <<recordID, lastKnownIP>>
    /\ UNCHANGED <<iface, remote, published, pendingIP, stabilityTimer, timers, failedIP,
                   probe>>

\* fetchRecordID from CloudFlare's answer on, called once by main before the
\* loop.  ok = FALSE: it returns the error and main stops with log.Fatalf.
fetchRecordID(ok) ==
    /\ mpc = IF ok THEN "fetched" ELSE "refused"
    /\ IF ~ok
         THEN /\ mpc' = "exited"
              /\ UNCHANGED <<recordID, lastKnownIP>>
         ELSE /\ mpc' = "initial"
              /\ IF records = 0
                   THEN UNCHANGED <<recordID, lastKnownIP>>
                   ELSE /\ recordID' = 1
                        /\ lastKnownIP' = remote[1]
    /\ UNCHANGED <<iface, remote, published, pendingIP, stabilityTimer, timers, failedIP,
                   probe>>

\* A cancel that clears pendingIP and the timer field and leaves the timer
\* itself running.
cancelKeepsTimerRunning ==
    /\ timers' = IF BagIn(ArmedTimer, timers)
                   THEN Becomes(timers, ArmedTimer, OrphanTimer) ELSE timers
    /\ stabilityTimer' = NoTimer
    /\ pendingIP' = Unset

\* cancelPendingUpdate.
cancelPendingUpdate ==
    /\ timers' = TimerStop(timers)
    /\ stabilityTimer' = NoTimer
    /\ pendingIP' = Unset

\* A poll that gives up the pending candidate when its probe fails.
checkAndUpdateCancelsOnError ==
    /\ mpc \in {"initial", "loop"}
    /\ LET currentIP == getPublicIPv6 IN
       IF currentIP = NoAddr
         THEN /\ mpc' = "loop"
              /\ cancelPendingUpdate
       ELSE IF currentIP = lastKnownIP
         THEN /\ mpc' = "loop"
              /\ IF pendingIP # Unset /\ pendingIP # currentIP
                   THEN cancelPendingUpdate
                   ELSE UNCHANGED <<pendingIP, stabilityTimer, timers>>
       ELSE IF currentIP # pendingIP
         THEN \* (the tick waits while MaxTimers timers are alive)
              /\ BagCardinality(TimerStop(timers)) < MaxTimers
              /\ pendingIP' = currentIP
              /\ timers' = TimerStop(timers)
              /\ mpc' = "rearm"
              /\ UNCHANGED stabilityTimer
         ELSE /\ mpc' = "loop"
              /\ UNCHANGED <<pendingIP, stabilityTimer, timers>>
    /\ UNCHANGED <<iface, remote, published, lastKnownIP, recordID, failedIP, probe>>

\* A poll that restarts the timer of the candidate it is already watching.
checkAndUpdateRestartsSameCandidate ==
    /\ mpc \in {"initial", "loop"}
    /\ LET currentIP == getPublicIPv6 IN
       IF currentIP = NoAddr
         THEN /\ mpc' = "loop"
              /\ UNCHANGED <<pendingIP, stabilityTimer, timers>>
       ELSE IF currentIP = lastKnownIP
         THEN /\ mpc' = "loop"
              /\ IF pendingIP # Unset /\ pendingIP # currentIP
                   THEN cancelPendingUpdate
                   ELSE UNCHANGED <<pendingIP, stabilityTimer, timers>>
       ELSE IF currentIP # pendingIP
         THEN \* (the tick waits while MaxTimers timers are alive)
              /\ BagCardinality(TimerStop(timers)) < MaxTimers
              /\ pendingIP' = currentIP
              /\ timers' = TimerStop(timers)
              /\ mpc' = "rearm"
              /\ UNCHANGED stabilityTimer
         ELSE /\ BagCardinality(TimerStop(timers)) < MaxTimers
              /\ timers' = TimerStop(timers)
              /\ mpc' = "rearm"
              /\ UNCHANGED <<pendingIP, stabilityTimer>>
    /\ UNCHANGED <<iface, remote, published, lastKnownIP, recordID, failedIP, probe>>

\* checkAndUpdate on the main goroutine (the initial check and every tick),
\* up to the call of time.AfterFunc in startStabilityTimer.
checkAndUpdate ==
    /\ mpc \in {"initial", "loop"}
    /\ LET currentIP == getPublicIPv6 IN
       IF currentIP = NoAddr
         THEN /\ mpc' = "loop"
              /\ UNCHANGED <<pendingIP, stabilityTimer, timers>>
       ELSE IF currentIP = lastKnownIP
         THEN /\ mpc' = "loop"
              /\ IF pendingIP # Unset /\ pendingIP # currentIP
                   THEN cancelPendingUpdate
                   ELSE UNCHANGED <<pendingIP, stabilityTimer, timers>>
       ELSE IF currentIP # pendingIP
         THEN \* (the tick waits while MaxTimers timers are alive)
              /\ BagCardinality(TimerStop(timers)) < MaxTimers
              /\ pendingIP' = currentIP
              /\ timers' = TimerStop(timers)
              /\ mpc' = "rearm"
              /\ UNCHANGED stabilityTimer
         ELSE /\ mpc' = "loop"
              /\ UNCHANGED <<pendingIP, stabilityTimer, timers>>
    /\ UNCHANGED <<iface, remote, published, lastKnownIP, recordID, failedIP, probe>>

\* The rest of startStabilityTimer called from checkAndUpdate: time.AfterFunc
\* and the assignment of its result.
startStabilityTimer ==
    /\ mpc = "rearm"
    /\ timers' = AfterFunc(timers)
    /\ stabilityTimer' = ATimer
    /\ mpc' = "loop"
    /\ UNCHANGED <<iface, remote, published, lastKnownIP, pendingIP, recordID, failedIP,
                   probe>>

\* A shutdown after which the timers and callbacks of the process live on.
ShutdownLeavesTimers ==
    /\ mpc = "loop"
    /\ mpc' = "exited"
    /\ UNCHANGED <<iface, remote, published, lastKnownIP, pendingIP, stabilityTimer,
                   recordID, timers, failedIP, probe>>

\* main receives SIGINT/SIGTERM in its select, stops the timer and returns:
\* the process ends, and with it every timer and every goroutine, whatever
\* its callback was doing.
Shutdown ==
    /\ mpc = "loop"
    /\ timers' = EmptyBag
    /\ mpc' = "exited"
    /\ UNCHANGED <<iface, remote, published, lastKnownIP, pendingIP, stabilityTimer,
                   recordID, failedIP, probe>>

\* Timer r expires: the runtime starts its callback on a new goroutine.  From
\* here on Stop does nothing to it.
Expire(r) ==
    /\ mpc # "exited"
    /\ Armed(r)
    /\ timers' = Becomes(timers, r, FiredTimer)
    /\ UNCHANGED <<iface, remote, published, lastKnownIP, pendingIP, stabilityTimer,
                   recordID, mpc, failedIP, probe>>

\* A callback that gives up on a failed re-probe and leaves pendingIP set.
VerifyKeepsPendingOnError(r) ==
    /\ mpc # "exited"
    /\ r.st = "fired"
    /\ LET currentIP == getPublicIPv6 IN
       IF currentIP = NoAddr
         THEN /\ UNCHANGED pendingIP
              /\ timers' = timers (-) One(r)
       ELSE IF currentIP # pendingIP
         THEN /\ pendingIP' = currentIP
              /\ timers' = Becomes(TimerStop(timers), r, RearmTimer)
         ELSE /\ timers' = Becomes(timers, r, [st |-> "inflight", ip |-> currentIP,
                                               rec |-> recordID])
              /\ UNCHANGED pendingIP
    /\ failedIP' = IF getPublicIPv6 = pendingIP THEN Unset ELSE failedIP
    /\ UNCHANGED <<iface, remote, published, lastKnownIP, stabilityTimer, recordID, mpc,
                   probe>>

\* A callback that proposes whatever address its re-probe finds.
VerifySendsChangedAddress(r) ==
    /\ mpc # "exited"
    /\ r.st = "fired"
    /\ LET currentIP == getPublicIPv6 IN
       IF currentIP = NoAddr
         THEN /\ pendingIP' = Unset
              /\ timers' = timers (-) One(r)
       ELSE IF currentIP # pendingIP
         THEN /\ pendingIP' = currentIP
              /\ timers' = Becomes(timers, r, [st |-> "inflight", ip |-> currentIP,
                                               rec |-> recordID])
         ELSE /\ timers' = Becomes(timers, r, [st |-> "inflight", ip |-> currentIP,
                                               rec |-> recordID])
              /\ UNCHANGED pendingIP
    /\ failedIP' = IF getPublicIPv6 = pendingIP THEN Unset ELSE failedIP
    /\ UNCHANGED <<iface, remote, published, lastKnownIP, stabilityTimer, recordID, mpc,
                   probe>>

\* The callback: re-probe, then give up, restart the window (up to the call
\* of time.AfterFunc), or send the create / update request of updateDNS.
Verify(r) ==
    /\ mpc # "exited"
    /\ r.st = "fired"
    /\ LET currentIP == getPublicIPv6 IN
       IF currentIP = NoAddr
         THEN /\ pendingIP' = Unset
              /\ timers' = timers (-) One(r)
       ELSE IF currentIP # pendingIP
         THEN /\ pendingIP' = currentIP
              /\ timers' = Becomes(TimerStop(timers), r, RearmTimer)
         ELSE /\ timers' = Becomes(timers, r, [st |-> "inflight", ip |-> currentIP,
                                               rec |-> recordID])
              /\ UNCHANGED pendingIP
    /\ failedIP' = IF getPublicIPv6 = pendingIP THEN Unset ELSE failedIP
    /\ UNCHANGED <<iface, remote, published, lastKnownIP, stabilityTimer, recordID, mpc,
                   probe>>

\* The rest of startStabilityTimer called from the callback, which then
\* returns.
Rearm(r) ==
    /\ mpc # "exited"
    /\ r.st = "rearm"
    /\ timers' = AfterFunc(timers (-) One(r))
    /\ stabilityTimer' = ATimer
    /\ UNCHANGED <<iface, remote, published, lastKnownIP, pendingIP, recordID, mpc,
                   failedIP, probe>>

\* CloudFlare applies the write of callback r and answers success=true.  A
\* create adds a record, which gets the next free id; an update overwrites
\* the record of the id it names.  CloudFlare refuses a write that would
\* leave the zone with two identical records.
Serve(r) ==
    /\ mpc # "exited"
    /\ r.st = "inflight"
    /\ \A i \in 1..records : i # r.rec => remote[i] # r.ip
    /\ IF r.rec = NoRecord
         THEN /\ remote' = Append(remote, r.ip)
              /\ timers' = Becomes(timers, r, [r EXCEPT !.st = "ok", !.rec = records + 1])
         ELSE /\ remote' = [remote EXCEPT ![r.rec] = r.ip]
              /\ timers' = Becomes(timers, r, [r EXCEPT !.st = "ok"])
    /\ published' = r.ip
    /\ UNCHANGED <<iface, lastKnownIP, pendingIP, stabilityTimer, recordID, mpc, failedIP,
                   probe>>

\* A callback that clears pendingIP and never records the new address.
RespondForgetsAddress(r) ==
    /\ mpc # "exited"
    /\ InFlight(r)
    /\ recordID' = IF recordID = NoRecord /\ r.st = "ok" THEN r.rec ELSE recordID
    /\ pendingIP' = Unset
    /\ timers' = timers (-) One(r)
    /\ failedIP' = IF r.st = "inflight" /\ r.ip = iface THEN r.ip ELSE failedIP
    /\ UNCHANGED <<iface, remote, published, lastKnownIP, stabilityTimer, mpc,
                   probe>>

\* A callback that confirms the address whatever updateDNS returned.
RespondConfirmsAlways(r) ==
    /\ mpc # "exited"
    /\ InFlight(r)
    /\ recordID' = IF recordID = NoRecord /\ r.st = "ok" THEN r.rec ELSE recordID
    /\ lastKnownIP' = r.ip
    /\ pendingIP' = Unset
    /\ timers' = timers (-) One(r)
    /\ failedIP' = IF r.st = "inflight" /\ r.ip = iface THEN r.ip ELSE failedIP
    /\ UNCHANGED <<iface, remote, published, stabilityTimer, mpc, probe>>

\* A callback that clears pendingIP only when updateDNS has succeeded.
RespondKeepsPendingOnFailure(r) ==
    /\ mpc # "exited"
    /\ InFlight(r)
    /\ IF r.st = "ok"
         THEN /\ recordID' = IF recordID = NoRecord THEN r.rec ELSE recordID
              /\ lastKnownIP' = r.ip
              /\ pendingIP' = Unset
         ELSE UNCHANGED <<recordID, lastKnownIP, pendingIP>>
    /\ timers' = timers (-) One(r)
    /\ failedIP' = IF r.st = "inflight" /\ r.ip = iface THEN r.ip ELSE failedIP
    /\ UNCHANGED <<iface, remote, published, stabilityTimer, mpc, probe>>

\* updateDNS returns to the callback, which records the outcome and returns.
\* A request CloudFlare has not applied fails: success=false, or a transport
\* error.
Respond(r) ==
    /\ mpc # "exited"
    /\ InFlight(r)
    /\ IF r.st = "ok"
         THEN /\ recordID' = IF recordID = NoRecord THEN r.rec ELSE recordID
              /\ lastKnownIP' = r.ip
         ELSE UNCHANGED <<recordID, lastKnownIP>>
    /\ pendingIP' = Unset
    /\ timers' = timers (-) One(r)
    /\ failedIP' = IF r.st = "inflight" /\ r.ip = iface THEN r.ip ELSE failedIP
    /\ UNCHANGED <<iface, remote, published, stabilityTimer, mpc, probe>>

Next ==
    \/ IfaceChange
    \/ \E ok \in BOOLEAN : LookupServe(ok)
    \/ \E ok \in BOOLEAN : fetchRecordID(ok)
    \/ checkAndUpdate
    \/ startStabilityTimer
    \/ Shutdown
    \/ \E r \in Alive : Expire(r)
    \/ \E r \in Alive : Verify(r)
    \/ \E r \in Alive : Rearm(r)
    \/ \E r \in Alive : Serve(r)
    \/ \E r \in Alive : Respond(r)

Spec == Init /\ [][Next]_vars

\* The service as it is scheduled: the lookup is answered or times out and
\* fetchRecordID returns, the ticker keeps ticking and main keeps serving it,
\* a timer that is not stopped expires, a callback that has started runs on,
\* and the http.Client, with its Timeout of 30 seconds, returns from every
\* request.  Nothing makes CloudFlare apply a write, nothing keeps the
\* interface's address as it is, and nothing forces a signal.
SpecLive ==
    /\ Init
    /\ [][Next]_vars
    /\ WF_vars(\E ok \in BOOLEAN : LookupServe(ok))
    /\ WF_vars(\E ok \in BOOLEAN : fetchRecordID(ok))
    /\ WF_vars(checkAndUpdate)
    /\ WF_vars(startStabilityTimer)
    /\ WF_vars(\E r \in Alive : Expire(r))
    /\ WF_vars(\E r \in Alive : Verify(r))
    /\ WF_vars(\E r \in Alive : Rearm(r))
    /\ WF_vars(\E r \in Alive : Respond(r))

(***************************************************************************)
(* One call of getPublicIPv6 after another, on every list of addresses the *)
(* interface can report; the service itself stands still.                  *)
(***************************************************************************)
service == <<iface, remote, published, lastKnownIP, pendingIP, stabilityTimer, recordID,
             mpc, timers, failedIP>>

InitProbe ==
    /\ iface = NoAddr
    /\ remote = << >>
    /\ published = Unset
    /\ lastKnownIP = Unset
    /\ pendingIP = Unset
    /\ stabilityTimer = NoTimer
    /\ recordID = NoRecord
    /\ mpc = "start"
    /\ timers = EmptyBag
    /\ failedIP = Unset
    /\ \E addrs \in AddrLists : probe = [NoProbe EXCEPT !.addrs = addrs]

\* The call: it returns the address found (the code returns its text,
\* ip.String(), which names one address and no other) or the error.
ProbeCall ==
    /\ ~probe.called
    /\ probe' = [probe EXCEPT !.called = TRUE, !.ret = scanAddrs(probe.addrs, 1)]
    /\ UNCHANGED service

\* Before the next call the interface gets one more address, or loses its
\* first one.
AddAddress ==
    /\ probe.called
    /\ Len(probe.addrs) < MaxAddrs
    /\ \E ip \in IPs : probe' = [NoProbe EXCEPT !.addrs = Append(probe.addrs, ip)]
    /\ UNCHANGED service

DropAddress ==
    /\ probe.called
    /\ probe.addrs # << >>
    /\ probe' = [NoProbe EXCEPT !.addrs = Tail(probe.addrs)]
    /\ UNCHANGED service

NextProbe ==
    \/ ProbeCall
    \/ AddAddress
    \/ DropAddress

SpecProbe == InitProbe /\ [][NextProbe]_vars

TypeOK ==
    /\ iface \in Addrs \cup {NoAddr}
    /\ lastKnownIP \in Addrs \cup {Unset}
    /\ pendingIP \in Addrs \cup {Unset}
    /\ stabilityTimer \in {NoTimer, ATimer}
    /\ remote \in UNION {[1..n -> Addrs] : n \in 0..MaxTimers}
    /\ published \in Addrs \cup {Unset}
    /\ recordID \in 0..records
    /\ mpc \in {"start", "fetched", "refused", "initial", "loop", "rearm", "exited"}
    /\ BagCardinality(timers) <= MaxTimers
    /\ CopiesIn(ArmedTimer, timers) <= 1
    /\ BagIn(ArmedTimer, timers) => stabilityTimer = ATimer
    /\ failedIP \in {Unset, iface}

(***************************************************************************)
(* Steps and states the properties speak of.                               *)
(***************************************************************************)

\* The zone and what the service has confirmed of it.
zone == <<remote, published, lastKnownIP, recordID>>

\* No candidate is pending, no timer is armed and no callback is running.
Idle == pendingIP = Unset /\ timers = EmptyBag

\* The number of callbacks of the bag ts that have started and not re-probed.
Fired(ts) == CopiesIn(FiredTimer, ts)

\* The number of requests with content a the callbacks of ts are waiting on.
Requests(ts, a) ==
    BagCardinality([r \in {x \in BagToSet(ts) : InFlight(x) /\ x.ip = a} |-> ts[r]])

\* The step in which a started callback re-probes and acts on the result (the
\* end of the process is no step of a callback).
Verifies == mpc' # "exited" /\ Fired(timers') < Fired(timers)

\* The step in which a timer expires and its callback starts.
Expires == Fired(timers') > Fired(timers)

\* The step in which a callback sends its create / update request and waits
\* as q for the reply.
Sends(q) ==
    /\ q.st = "inflight"
    /\ BagIn(FiredTimer, timers)
    /\ timers' = Becomes(timers, FiredTimer, q)

\* The step in which callback r learns that its request has failed.
Fails(r) ==
    /\ r.st = "inflight"
    /\ BagIn(r, timers)
    /\ timers' = timers (-) One(r)
    /\ mpc' # "exited"

\* The step in which callback r learns that its request has succeeded.
Succeeds(r) ==
    /\ r.st = "ok"
    /\ BagIn(r, timers)
    /\ timers' = timers (-) One(r)
    /\ mpc' # "exited"

\* The step in which some callback learns that its request has failed.
UpsertFails == \E r \in Alive : Fails(r)

\* The service has confirmed address b and is at rest.
Settled(b) == lastKnownIP = b /\ Idle

\* The record the service manages, the one recordID names, has content b.
RecordContent(b) == recordID # NoRecord /\ remote[recordID] = b

\* The timer of the pending candidate has not expired yet.
PendingTimerArmed ==
    /\ pendingIP # Unset
    /\ stabilityTimer # NoTimer
    /\ BagIn(ArmedTimer, timers)

\* The five conditions on an address of the interface.
Qualifies(ip) ==
    /\ ~IsV4(ip)
    /\ ~IsLinkLocalUnicast(ip)
    /\ ~IsLoopback(ip)
    /\ ~IsULA(ip)
    /\ IsGlobalUnicast(ip)

\* A poll now probes the confirmed address while another one is pending.
PollSeesRevert ==
    /\ mpc \in {"initial", "loop"}
    /\ iface = lastKnownIP
    /\ pendingIP \notin {Unset, iface}

\* A poll now probes an address that is neither confirmed nor pending.
PollSeesNewCandidate ==
    /\ mpc \in {"initial", "loop"}
    /\ iface \in Addrs
    /\ iface # lastKnownIP
    /\ iface # pendingIP

(***************************************************************************)
(* C1.  A timer expiry whose re-probe still yields the pending address     *)
(* issues exactly one upsert: the callback sends one request, whose        *)
(* content is that address, and changes nothing else; no request appears   *)
(* in any other way, so the callback never sends a second one; when the    *)
(* request succeeds, lastKnownIP becomes that address and pendingIP is     *)
(* cleared.                                                                *)
(***************************************************************************)
C1_StableCandidatePublishedOnce ==
    [][/\ (Verifies /\ iface \in Addrs /\ iface = pendingIP)
            => /\ timers' = Becomes(timers, FiredTimer,
                                    [st |-> "inflight", ip |-> pendingIP, rec |-> recordID])
               /\ UNCHANGED <<pendingIP, zone>>
       /\ \A a \in Addrs :
            /\ Requests(timers', a) <= Requests(timers, a) + 1
            /\ Requests(timers', a) > Requests(timers, a)
                 => Verifies /\ a = iface /\ a = pendingIP
       /\ \A r \in Alive :
            Succeeds(r) => lastKnownIP' = r.ip /\ pendingIP' = Unset
      ]_vars

\* lastKnownIP=A, the poll made B pending, the expiry re-probed B and the zone
\* has applied the one upsert, whose content is B.
C1_Witness ==
    /\ timers = One([st |-> "ok", ip |-> "B", rec |-> 1])
    /\ lastKnownIP = "A"
    /\ pendingIP = "B"
    /\ published = "B"

(***************************************************************************)
(* C2.  A poll that probes the confirmed address while another address is  *)
(* pending and its timer has not expired cancels that timer, clears        *)
(* pendingIP and the timer field and sends nothing to the zone; a          *)
(* cancelled timer never fires: a callback starts only by the expiry of a  *)
(* timer that is still waiting.                                            *)
(***************************************************************************)
C2_RevertCancelsPending ==
    [][/\ (PollSeesRevert /\ PendingTimerArmed /\ checkAndUpdate)
            => /\ pendingIP' = Unset
               /\ stabilityTimer' = NoTimer
               /\ timers' = timers (-) One(ArmedTimer)
               /\ mpc' = "loop"
               /\ UNCHANGED zone
       /\ Expires
            => \E r \in Alive : Armed(r) /\ timers' = Becomes(timers, r, FiredTimer)
      ]_vars

\* lastKnownIP=A, B is pending on an armed timer, nothing else is alive, and
\* the interface is back on A when the next tick comes.
C2_Witness ==
    /\ PollSeesRevert
    /\ PendingTimerArmed
    /\ lastKnownIP = "A"
    /\ pendingIP = "B"
    /\ timers = One(ArmedTimer)

(***************************************************************************)
(* C3.  A poll that probes a third address while a candidate is pending    *)
(* and its timer has not expired makes the new address pending and         *)
(* cancels the old timer, which never fires; startStabilityTimer then arms *)
(* one new timer and makes it the service's timer.  A callback only ever   *)
(* proposes the address that is pending and that its re-probe has found.   *)
(***************************************************************************)
C3_NewCandidateRestartsTimer ==
    [][/\ (PollSeesNewCandidate /\ PendingTimerArmed /\ checkAndUpdate)
            => /\ pendingIP' = iface
               /\ timers' = timers (-) One(ArmedTimer)
               /\ mpc' = "rearm"
               /\ UNCHANGED zone
       /\ (mpc = "rearm" /\ mpc' # "rearm")
            => /\ stabilityTimer' = ATimer
               /\ CopiesIn(ArmedTimer, timers') = 1
               /\ BagCardinality(timers') = BagCardinality(timers) + 1
               /\ Fired(timers') = Fired(timers)
               /\ UNCHANGED <<pendingIP, zone>>
       /\ Expires
            => \E r \in Alive : Armed(r) /\ timers' = Becomes(timers, r, FiredTimer)
       /\ \A q \in BagToSet(timers') :
            Sends(q) => q.ip = pendingIP /\ q.ip = iface
      ]_vars

\* lastKnownIP=A, B is pending on an armed timer, and the interface has moved
\* on to C when the next tick comes.
C3_Witness ==
    /\ PollSeesNewCandidate
    /\ PendingTimerArmed
    /\ lastKnownIP = "A"
    /\ pendingIP = "B"
    /\ iface = "C"
    /\ timers = One(ArmedTimer)

(***************************************************************************)
(* C4.  When the upsert of a callback fails, lastKnownIP, recordID and the *)
(* zone are unchanged and pendingIP is cleared; and a poll that, with      *)
(* nothing pending, probes an address other than lastKnownIP makes it      *)
(* pending and starts a stability timer for it, whose expiry proposes the  *)
(* address again if the re-probe still finds it.                           *)
(***************************************************************************)
C4_FailedUpsertIsRedetected ==
    [][/\ \A r \in Alive :
            Fails(r) => pendingIP' = Unset /\ UNCHANGED zone
       /\ (Verifies /\ iface \in Addrs /\ iface = pendingIP)
            => \E q \in BagToSet(timers') : Sends(q) /\ q.ip = iface
       /\ (PollSeesNewCandidate /\ pendingIP = Unset /\ checkAndUpdate)
            => /\ pendingIP' = iface
               /\ mpc' = "rearm"
               /\ UNCHANGED zone
       /\ (mpc = "rearm" /\ mpc' # "rearm")
            => /\ stabilityTimer' = ATimer
               /\ BagIn(ArmedTimer, timers')
               /\ UNCHANGED <<pendingIP, zone>>
      ]_vars

\* lastKnownIP=A and the upsert of B is on its way and has not been applied:
\* it can fail.
C4_Witness ==
    /\ timers = One([st |-> "inflight", ip |-> "B", rec |-> 1])
    /\ lastKnownIP = "A"
    /\ pendingIP = "B"
    /\ published = "A"

(***************************************************************************)
(* C5.  When the startup lookup has found a record, lastKnownIP is its     *)
(* content and recordID its id before the first poll, with nothing pending *)
(* and no timer; and from a state with nothing pending and no timer alive, *)
(* every step but a poll that probes an address other than lastKnownIP     *)
(* leaves it so and writes nothing to the zone: as long as the polls probe *)
(* the record's address, no timer is started and no DNS write is issued.   *)
(***************************************************************************)
C5_SeededStartupIsQuiet ==
    [][/\ (mpc = "initial" /\ records > 0)
            => /\ lastKnownIP = published
               /\ recordID = 1
               /\ stabilityTimer = NoTimer
               /\ Idle
       /\ (Idle /\ mpc \in {"initial", "loop"}
             /\ ~(iface \notin {NoAddr, lastKnownIP} /\ checkAndUpdate))
            => /\ Idle'
               /\ mpc' # "rearm"
               /\ UNCHANGED <<stabilityTimer, zone>>
      ]_vars

\* The lookup found the record of address A, a poll has probed A, and nothing
\* has been started or written.
C5_Witness ==
    /\ mpc = "loop"
    /\ iface = StartAddr
    /\ lastKnownIP = StartAddr
    /\ recordID = 1
    /\ records = 1
    /\ published = StartAddr
    /\ stabilityTimer = NoTimer
    /\ Idle

(***************************************************************************)
(* C6.  pendingIP is set if and only if a stability timer is running for   *)
(* it.  A timer counts as running from the moment startStabilityTimer is   *)
(* entered until its callback returns.                                     *)
(***************************************************************************)
C6_PendingIffTimer ==
    mpc # "exited" =>
      /\ pendingIP # Unset => (mpc = "rearm" \/ timers # EmptyBag)
      /\ \A r \in Alive : Armed(r) => pendingIP # Unset

(***************************************************************************)
(* C7.  While the service runs and no upsert is in flight, lastKnownIP is  *)
(* the content of the last write the zone applied or, when there was none, *)
(* of the record the startup lookup found (unset when it found none).      *)
(***************************************************************************)
C7_LastKnownIsPublished ==
    (mpc \in {"initial", "loop", "rearm"} /\ \A r \in Alive : ~InFlight(r))
      => lastKnownIP = published

(***************************************************************************)
(* C8.  Poll ticks and timer expiries are serialized: checkAndUpdate does  *)
(* not touch the service's fields while a callback is between its re-probe *)
(* and its return, and a callback does not run while checkAndUpdate is     *)
(* inside startStabilityTimer.                                             *)
(***************************************************************************)
C8_TicksAndExpiriesSerialized ==
    [][/\ ((iface # NoAddr /\ checkAndUpdate) \/ startStabilityTimer)
            => \A r \in Alive : r.st \notin {"rearm", "inflight", "ok"}
       /\ \A r \in Alive :
            (Verify(r) \/ Rearm(r) \/ Respond(r)) => mpc # "rearm"
      ]_vars

(***************************************************************************)
(* C9.  An upsert is a create exactly when recordID is empty when it is    *)
(* sent, and an update of recordID otherwise; recordID, once set, never    *)
(* changes; at most one create ever succeeds, so the zone never holds more *)
(* than one record of the name.                                            *)
(***************************************************************************)
C9_OneCreateThenUpdates ==
    [][/\ \A q \in BagToSet(timers') : Sends(q) => q.rec = recordID
       /\ recordID # NoRecord => recordID' = recordID
       /\ records' <= 1
      ]_vars

(***************************************************************************)
(* C10.  At most one stability timer is armed and at most one expiry       *)
(* callback is executing, in every state.                                  *)
(***************************************************************************)
C10_OneTimerOneCallback ==
    /\ BagCardinality([r \in {x \in Alive : Armed(x)} |-> timers[r]]) <= 1
    /\ BagCardinality([r \in {x \in Alive : Running(x)} |-> timers[r]]) <= 1

(***************************************************************************)
(* C11 as the specification has it.  After the upsert of an address has    *)
(* failed, no upsert of that address is issued as long as the interface    *)
(* keeps it.                                                               *)
(***************************************************************************)
C11_FailedUpsertNotRetried ==
    [][\A q \in BagToSet(timers') : Sends(q) => q.ip # failedIP]_vars

(***************************************************************************)
(* C11, amended.  The callback whose upsert has failed does not repeat     *)
(* the request: it leaves lastKnownIP, recordID and the zone as they are,  *)
(* clears pendingIP and returns.  The attempt is repeated with no change   *)
(* of address: while the interface keeps the address (and it differs from  *)
(* lastKnownIP), the next poll with nothing pending makes it pending       *)
(* again and goes on to start a stability timer, and the address is        *)
(* proposed again only by a timer expiry that finds it pending.            *)
(***************************************************************************)
C11_FailedUpsertRetriedByNextPoll ==
    [][/\ \A r \in Alive :
            Fails(r) => /\ pendingIP' = Unset
                        /\ UNCHANGED <<remote, lastKnownIP, recordID>>
                        /\ \A a \in Addrs : Requests(timers', a) <= Requests(timers, a)
       /\ (failedIP # Unset /\ failedIP # lastKnownIP /\ pendingIP = Unset
             /\ checkAndUpdate)
            => pendingIP' = failedIP /\ mpc' = "rearm"
       /\ \A q \in BagToSet(timers') :
            (Sends(q) /\ q.ip = failedIP) => pendingIP = q.ip /\ iface = q.ip
      ]_vars

\* The upsert of B has failed, the interface has kept B, a poll has made B
\* pending again and its timer has expired: the callback is about to propose
\* B a second time.
C11_Witness ==
    /\ failedIP = "B"
    /\ iface = "B"
    /\ pendingIP = "B"
    /\ lastKnownIP = "A"
    /\ timers = One(FiredTimer)

(***************************************************************************)
(* C12.  For every list of addresses of the interface, getPublicIPv6       *)
(* returns the first address of the list that is IPv6, not link-local,     *)
(* not loopback, not unique-local (first byte 0xfc or 0xfd) and global     *)
(* unicast, and returns the error exactly when the list has no such        *)
(* address.                                                                *)
(***************************************************************************)
C12_ProbeReturnsFirstQualifying ==
    probe.called =>
      LET q == {i \in 1..Len(probe.addrs) : Qualifies(probe.addrs[i])} IN
        IF q = {}
          THEN probe.ret = << >>
          ELSE \E i \in q : (\A j \in q : i <= j) /\ probe.ret = <<probe.addrs[i]>>

\* fd00::/8 first, then an address of 2000::/3: the call has skipped the
\* first and returned the second.
C12_Witness ==
    /\ Len(probe.addrs) = 2
    /\ probe.addrs[1] = [b0 |-> 253, b1 |-> 0, rest |-> "host"]
    /\ probe.addrs[2] = [b0 |-> 32, b1 |-> 0, rest |-> "host"]
    /\ probe.called
    /\ probe.ret = <<probe.addrs[2]>>

(***************************************************************************)
(* C13.  Once main has handled the termination signal, no timer is armed   *)
(* and no callback is running, whatever they were doing when the signal    *)
(* came, and nothing happens any more: no poll, no expiry, no re-arming,   *)
(* no upsert.  The zone is as the signal found it.                         *)
(***************************************************************************)
C13_NothingSurvivesShutdown ==
    [][/\ mpc' = "exited" => timers' = EmptyBag /\ UNCHANGED <<remote, published>>
       /\ mpc # "exited"
      ]_vars

\* The signal came while B was being stabilized (its timer armed, or its
\* callback running): main has returned and nothing is left.
C13_Witness ==
    /\ mpc = "exited"
    /\ lastKnownIP = "A"
    /\ pendingIP = "B"
    /\ stabilityTimer = ATimer
    /\ timers = EmptyBag

(***************************************************************************)
(* C14.  A poll whose probe fails changes nothing: lastKnownIP, pendingIP, *)
(* the timer field, the timers themselves and recordID are as before (a    *)
(* stabilization in progress goes on, the confirmed address is kept) and   *)
(* nothing is sent to the zone.                                            *)
(***************************************************************************)
C14_FailedProbeChangesNothing ==
    [][(iface = NoAddr /\ checkAndUpdate)
         => /\ UNCHANGED <<lastKnownIP, pendingIP, stabilityTimer, recordID, timers>>
            /\ UNCHANGED <<remote, published>>
            /\ mpc' = "loop"
      ]_vars

\* lastKnownIP=A, B is pending on an armed timer, and the interface has no
\* public address when the tick comes: the tick leaves this state as it is.
C14_Witness ==
    /\ mpc = "loop"
    /\ iface = NoAddr
    /\ lastKnownIP = "A"
    /\ pendingIP = "B"
    /\ stabilityTimer = ATimer
    /\ timers = One(ArmedTimer)

(***************************************************************************)
(* C15.  When the re-probe of a callback fails, the callback clears        *)
(* pendingIP and returns: it sends nothing, arms no timer and leaves       *)
(* lastKnownIP, recordID, the zone and the timer field as they are.  The   *)
(* next poll that, with nothing pending, probes an address other than      *)
(* lastKnownIP makes it pending, and startStabilityTimer arms a timer for  *)
(* it.                                                                     *)
(***************************************************************************)
C15_FailedReprobeAbandonsCandidate ==
    [][/\ (Verifies /\ iface = NoAddr)
            => /\ pendingIP' = Unset
               /\ timers' = timers (-) One(FiredTimer)
               /\ UNCHANGED <<zone, stabilityTimer, mpc>>
       /\ (PollSeesNewCandidate /\ pendingIP = Unset /\ checkAndUpdate)
            => /\ pendingIP' = iface
               /\ mpc' = "rearm"
               /\ UNCHANGED <<zone, stabilityTimer>>
       /\ (mpc = "rearm" /\ mpc' = "loop")
            => /\ CopiesIn(ArmedTimer, timers') = 1
               /\ stabilityTimer' = ATimer
               /\ UNCHANGED pendingIP
      ]_vars

\* lastKnownIP=A, the timer of candidate B has expired and the interface has
\* lost its public address: the re-probe of the callback fails.
C15_Witness ==
    /\ timers = One(FiredTimer)
    /\ iface = NoAddr
    /\ lastKnownIP = "A"
    /\ pendingIP = "B"
    /\ mpc = "loop"

(***************************************************************************)
(* C16.  When the re-probe of a callback finds an address other than       *)
(* pendingIP, the callback sends nothing at that expiry: it makes the      *)
(* address pending and starts a new stability timer for it, which becomes  *)
(* the service's timer.  A request is only ever sent by a callback whose   *)
(* re-probe has found the address that is pending, and carries that        *)
(* address.  (Nothing counts the restarts: a restarted timer is a timer    *)
(* like the first.)                                                        *)
(***************************************************************************)
C16_ChangedAddressRestartsWindow ==
    [][/\ (Verifies /\ iface \in Addrs /\ iface # pendingIP)
            => /\ pendingIP' = iface
               /\ CopiesIn(RearmTimer, timers') = CopiesIn(RearmTimer, timers) + 1
               /\ \A a \in Addrs : Requests(timers', a) = Requests(timers, a)
               /\ UNCHANGED zone
       /\ (CopiesIn(RearmTimer, timers') < CopiesIn(RearmTimer, timers)
             /\ mpc' # "exited")
            => /\ CopiesIn(ArmedTimer, timers') = 1
               /\ stabilityTimer' = ATimer
               /\ \A a \in Addrs : Requests(timers', a) = Requests(timers, a)
               /\ UNCHANGED <<pendingIP, zone>>
       /\ \A a \in Addrs :
            Requests(timers', a) > Requests(timers, a)
              => Verifies /\ a = iface /\ a = pendingIP
      ]_vars

\* lastKnownIP=A, the timer of candidate B has expired with the interface on
\* C: the callback has made C pending, has sent nothing and is about to start
\* the new timer.
C16_Witness ==
    /\ timers = One(RearmTimer)
    /\ iface = "C"
    /\ pendingIP = "C"
    /\ lastKnownIP = "A"
    /\ published = "A"

(***************************************************************************)
(* C17.  A poll that probes an address other than lastKnownIP and equal to *)
(* pendingIP does nothing: pendingIP, lastKnownIP, recordID and the timer  *)
(* field are unchanged, no timer is stopped or started (the expiry of the  *)
(* candidate's timer is not postponed) and nothing is sent.                *)
(***************************************************************************)
C17_SameCandidatePollIsNoOp ==
    [][(mpc \in {"initial", "loop"} /\ iface \in Addrs /\ iface # lastKnownIP
          /\ iface = pendingIP /\ checkAndUpdate)
         => /\ UNCHANGED <<pendingIP, lastKnownIP, recordID, stabilityTimer, timers>>
            /\ UNCHANGED <<remote, published>>
            /\ mpc' = "loop"
      ]_vars

\* lastKnownIP=A, B is pending on an armed timer and the tick probes B again.
C17_Witness ==
    /\ mpc = "loop"
    /\ iface = "B"
    /\ pendingIP = "B"
    /\ lastKnownIP = "A"
    /\ stabilityTimer = ATimer
    /\ timers = One(ArmedTimer)

(***************************************************************************)
(* C18.  No request is ever sent whose content is lastKnownIP as it is     *)
(* sent: the record is never rewritten with the address the service has    *)
(* confirmed, also when the return of the interface to that address is     *)
(* first seen by the re-probe of a callback.                               *)
(***************************************************************************)
C18_NoUpsertOfConfirmedAddress ==
    [][\A q \in BagToSet(timers') : Sends(q) => q.ip # lastKnownIP]_vars

(***************************************************************************)
(* C19.  The service runs on and is scheduled fairly.  If from some point  *)
(* on the probe returns the same address b and no upsert fails, then from  *)
(* some point on lastKnownIP is b, the record the service manages has      *)
(* content b, pendingIP is empty and no timer or callback is left.         *)
(***************************************************************************)
C19_StableAddressGetsPublished ==
    \A b \in Addrs :
      (<>[](iface = b) /\ <>[][~UpsertFails]_vars /\ [](mpc # "exited"))
         => <>[](Settled(b) /\ RecordContent(b))

(***************************************************************************)
(* C20.  The startup lookup is over before anything else happens: until    *)
(* fetchRecordID has returned there is no candidate, no timer and no write *)
(* to the zone.  When the lookup fails, main stops and lastKnownIP and     *)
(* recordID are never set; a stopped process does nothing.  A lookup that  *)
(* succeeds and finds no record is no failure: main goes on to the initial *)
(* check with lastKnownIP and recordID unset, and a request sent while     *)
(* recordID is unset is a create.                                          *)
(***************************************************************************)
C20_LookupFirstAndFatal ==
    [][/\ mpc \in {"start", "fetched", "refused"}
            => UNCHANGED <<pendingIP, stabilityTimer, timers, remote, published>>
       /\ mpc = "refused"
            => mpc' \in {"refused", "exited"} /\ UNCHANGED <<lastKnownIP, recordID>>
       /\ mpc # "exited"
       /\ (mpc = "fetched" /\ mpc' # "fetched" /\ records = 0)
            => mpc' = "initial" /\ lastKnownIP' = Unset /\ recordID' = NoRecord
       /\ \A q \in BagToSet(timers') :
            (Sends(q) /\ recordID = NoRecord) => q.rec = NoRecord
      ]_vars

\* The zone holds a record, the lookup has failed and main has stopped: the
\* record was never read, no poll was made and nothing was started or written.
C20_Witness ==
    /\ mpc = "exited"
    /\ remote = <<StartAddr>>
    /\ published = StartAddr
    /\ lastKnownIP = Unset
    /\ recordID = NoRecord
    /\ pendingIP = Unset
    /\ stabilityTimer = NoTimer
    /\ timers = EmptyBag
====
